---- MODULE Spec2Model ----
(***************************************************************************)
(* A model of scrape_resources.py: nine lexical extractors over one shell  *)
(* script text, and main(), which reads the script, runs the extractors    *)
(* and writes the report.                                                  *)
(*                                                                         *)
(* A character is a one-character string, a Python str is a sequence of    *)
(* characters.  The alphabet is printable ASCII plus tab and newline.      *)
(* Each regular expression of the source is translated into an operator    *)
(* that gives, for a start position, the match Python's backtracking       *)
(* matcher finds there (its length and what re.findall returns for it).    *)
(***************************************************************************)
EXTENDS Integers, Sequences, FiniteSets, TLC

\* ------------------------------------------------------------ characters

Range(s) == {s[i] : i \in 1..Len(s)}

\* the characters of code points 32..95 and 97..126
AsciiLow ==
  <<" ","!","\"","#","$","%","&","'","(",")","*","+",",","-",".","/",
    "0","1","2","3","4","5","6","7","8","9",":",";","<","=",">","?","@",
    "A","B","C","D","E","F","G","H","I","J","K","L","M","N","O","P","Q",
    "R","S","T","U","V","W","X","Y","Z","[","\\","]","^","_">>

AsciiHigh ==
  <<"a","b","c","d","e","f","g","h","i","j","k","l","m","n","o","p","q",
    "r","s","t","u","v","w","x","y","z","{","|","}","~">>

Chars == Range(AsciiLow) \cup Range(AsciiHigh) \cup {"\t", "\n"}

\* ord(c), the order Python compares str by
CodePointOf ==
  [c \in Chars |->
     IF c = "\t" THEN 9
     ELSE IF c = "\n" THEN 10
     ELSE IF c \in Range(AsciiLow)
     THEN 31 + (CHOOSE i \in 1..Len(AsciiLow) : AsciiLow[i] = c)
     ELSE 96 + (CHOOSE i \in 1..Len(AsciiHigh) : AsciiHigh[i] = c)]

\* str.lower() of one character (re.IGNORECASE folds case)
Lower(c) ==
  IF CodePointOf[c] \in 65..90 THEN AsciiHigh[CodePointOf[c] - 64] ELSE c

\* \s
Whitespace == {" ", "\t", "\n"}

\* \d
Digits == {c \in Chars : CodePointOf[c] \in 48..57}

\* [A-Za-z_] and [A-Za-z0-9_]
NameStart ==
  {c \in Chars : CodePointOf[c] \in (65..90) \cup (97..122)} \cup {"_"}

NameChars == NameStart \cup Digits

\* ---------------------------------------------------------------- strings

\* a < b for two str values: at the first index where they differ, a has
\* ended or holds the character of the lower code point
StrLess(a, b) ==
  \E k \in 1..Len(b) :
    /\ \A j \in 1..(k - 1) : j <= Len(a) /\ a[j] = b[j]
    /\ (k > Len(a) \/ CodePointOf[a[k]] < CodePointOf[b[k]])

\* s.rstrip(c) with a one-character argument
RECURSIVE rstrip(_, _)
rstrip(s, c) ==
  IF s # <<>> /\ s[Len(s)] = c THEN rstrip(SubSeq(s, 1, Len(s) - 1), c) ELSE s

\* sorted(S) of a set of str: the element with k - 1 elements below it
\* stands at index k
SortedAscending(S) ==
  LET below == {<<x, Cardinality({y \in S : StrLess(y, x)})>> : x \in S}
  IN  [k \in 1..Cardinality(S) |-> (CHOOSE p \in below : p[2] = k - 1)[1]]

\* a sort that keeps the reverse order (sorted(..., reverse=True))
Reverse(s) == [i \in 1..Len(s) |-> s[Len(s) + 1 - i]]

SortedDescending(S) == Reverse(SortedAscending(S))

sorted(S) == SortedAscending(S)

\* sorted(set(xs)) of a list of str
sorted_set(xs) == sorted(Range(xs))

\* ------------------------------------------------------- regex primitives

\* the number of consecutive characters from position i that are not in Excl
RunNotIn(doc, i, Excl) ==
  IF i > Len(doc) THEN 0
  ELSE (CHOOSE k \in i..(Len(doc) + 1) :
          /\ k = Len(doc) + 1 \/ doc[k] \in Excl
          /\ \A j \in i..(k - 1) : doc[j] \notin Excl) - i

\* the number of consecutive characters from position i that are in Incl
RunIn(doc, i, Incl) ==
  IF i > Len(doc) THEN 0
  ELSE (CHOOSE k \in i..(Len(doc) + 1) :
          /\ k = Len(doc) + 1 \/ doc[k] \notin Incl
          /\ \A j \in i..(k - 1) : doc[j] \in Incl) - i

\* the literal lit stands at position i
HasLit(doc, i, lit) ==
  /\ i >= 1
  /\ i + Len(lit) - 1 <= Len(doc)
  /\ \A k \in 1..Len(lit) : doc[i + k - 1] = lit[k]

\* the literal lit stands at position i, case folded (re.IGNORECASE)
HasLitI(doc, i, lit) ==
  /\ i >= 1
  /\ i + Len(lit) - 1 <= Len(doc)
  /\ \A k \in 1..Len(lit) : Lower(doc[i + k - 1]) = Lower(lit[k])

Sub(doc, i, n) == SubSeq(doc, i, i + n - 1)

Max(S) == CHOOSE x \in S : \A y \in S : y <= x

Min(S) == CHOOSE x \in S : \A y \in S : x <= y

\* a match of n characters for which re.findall returns val; n = 0: no match
Hit(n, val) == [n |-> n, val |-> val]

NoMatch == [n |-> 0, val |-> <<>>]

\* re.findall over the matches M[i] possible at each position: the leftmost
\* match first, and the scan resumes where the match ended.  ScanRange scans
\* the positions lo..hi when the scan has come to position at (lo <= at), and
\* gives the values found and the position the scan has come to then; it
\* splits the range in two halves, the second scanned from where the first
\* left off.
RECURSIVE ScanRange(_, _, _, _)
ScanRange(M, lo, hi, at) ==
  IF at > hi THEN [vals |-> <<>>, at |-> at]
  ELSE IF lo = hi
  THEN LET m == M[lo]
       IN  IF m.n > 0 THEN [vals |-> <<m.val>>, at |-> lo + m.n]
           ELSE [vals |-> <<>>, at |-> lo + 1]
  ELSE LET mid == (lo + hi) \div 2
           left == ScanRange(M, lo, mid, at)
           right == ScanRange(M, mid + 1, hi, left.at)
       IN  [vals |-> left.vals \o right.vals, at |-> right.at]

ScanFrom(M, i) == IF Len(M) = 0 THEN <<>> ELSE ScanRange(M, 1, Len(M), i).vals

findall(doc, MatchAt(_, _)) ==
  ScanFrom([i \in 1..Len(doc) |-> MatchAt(doc, i)], 1)

\* <prefix><class>+ (least = 1) or <prefix><class>* (least = 0), the class
\* given by the characters Excl it leaves out
MatchPrefixedRun(doc, i, prefix, Excl, least) ==
  LET r == RunNotIn(doc, i + Len(prefix), Excl)
  IN  IF HasLit(doc, i, prefix) /\ r >= least
      THEN Hit(Len(prefix) + r, Sub(doc, i, Len(prefix) + r)) ELSE NoMatch

\* ------------------------------------------------------------ extract_urls

\* https?://   (the length matched at i, 0 when it does not match)
SchemeLen(doc, i) ==
  IF HasLit(doc, i, <<"h","t","t","p","s",":","/","/">>) THEN 8
  ELSE IF HasLit(doc, i, <<"h","t","t","p",":","/","/">>) THEN 7
  ELSE 0

\* [^\s"'<>()]
UrlStop == Whitespace \cup {"\"", "'", "<", ">", "(", ")"}

\* [^\s"'<>().,;:!?\]]
UrlEndStop == UrlStop \cup {".", ",", ";", ":", "!", "?", "]"}

\* https?://[^\s"'<>()]+[^\s"'<>().,;:!?\]]
\* The greedy run gives characters back until the one after it may end the
\* match: the match ends at the last character of the run that is not in
\* UrlEndStop and leaves at least one character for the run.
MatchUrl(doc, i) ==
  LET h == SchemeLen(doc, i)
      r == RunNotIn(doc, i + h, UrlStop)
      ends == {k \in 2..r : doc[i + h + k - 1] \notin UrlEndStop}
  IN  IF h = 0 \/ ends = {} THEN NoMatch
      ELSE Hit(h + Max(ends), Sub(doc, i, h + Max(ends)))

\* url.rstrip('\\').rstrip("'").rstrip('"')
StripUrl(url) == rstrip(rstrip(rstrip(url, "\\"), "'"), "\"")

UrlCandidates(content) == findall(content, MatchUrl)

extract_urls(content) ==
  LET urls == UrlCandidates(content)
      cleaned == [k \in 1..Len(urls) |-> StripUrl(urls[k])]
  IN  sorted_set(cleaned)

\* --------------------------------------------------------- extract_domains

\* https?://([^/\s"']+)
MatchDomain(doc, i) ==
  LET h == SchemeLen(doc, i)
      r == RunNotIn(doc, i + h, Whitespace \cup {"/", "\"", "'"})
  IN  IF h = 0 \/ r = 0 THEN NoMatch ELSE Hit(h + r, Sub(doc, i + h, r))

extract_domains(content) == sorted_set(findall(content, MatchDomain))

\* --------------------------------------------------- extract_api_endpoints

\* [^\s"']
ApiStop == Whitespace \cup {"\"", "'"}

\* /v\d+/ stands at position i
HasVersionSegment(doc, i) ==
  /\ HasLit(doc, i, <<"/","v">>)
  /\ RunIn(doc, i + 2, Digits) >= 1
  /\ \E d \in 1..RunIn(doc, i + 2, Digits) : HasLit(doc, i + 2 + d, <<"/">>)

\* https?://[^\s"']+<segment>[^\s"']* : the segment's characters are all in
\* the class, so the match is the whole run when the segment stands in it
\* after at least one character
MatchPhp(doc, i) ==
  LET h == SchemeLen(doc, i)
      r == RunNotIn(doc, i + h, ApiStop)
  IN  IF h > 0 /\ \E a \in 1..r : HasLit(doc, i + h + a, <<".","p","h","p">>)
      THEN Hit(h + r, Sub(doc, i, h + r)) ELSE NoMatch

MatchApiPath(doc, i) ==
  LET h == SchemeLen(doc, i)
      r == RunNotIn(doc, i + h, ApiStop)
  IN  IF h > 0 /\ \E a \in 1..r : HasLit(doc, i + h + a, <<"/","a","p","i","/">>)
      THEN Hit(h + r, Sub(doc, i, h + r)) ELSE NoMatch

MatchVersionPath(doc, i) ==
  LET h == SchemeLen(doc, i)
      r == RunNotIn(doc, i + h, ApiStop)
  IN  IF h > 0 /\ \E a \in 1..r : HasVersionSegment(doc, i + h + a)
      THEN Hit(h + r, Sub(doc, i, h + r)) ELSE NoMatch

extract_api_endpoints(content) ==
  sorted_set(findall(content, MatchPhp) \o findall(content, MatchApiPath)
             \o findall(content, MatchVersionPath))

\* ------------------------------------------------------ extract_file_paths

\* the nine prefixes, in the order of the patterns list
PathPrefixes ==
  <<<<"~","/">>,
    <<"/","t","m","p","/">>,
    <<"/","v","a","r","/">>,
    <<"/","u","s","r","/">>,
    <<"/","L","i","b","r","a","r","y","/">>,
    <<"/","A","p","p","l","i","c","a","t","i","o","n","s","/">>,
    <<"/","p","r","i","v","a","t","e","/">>,
    <<"/","e","t","c","/">>,
    <<"/","b","i","n","/">>>>

\* [^\s"'<>|&;]
PathStop == Whitespace \cup {"\"", "'", "<", ">", "|", "&", ";"}

\* <prefix>[^\s"'<>|&;]+
MatchPrefixed(doc, i, prefix) == MatchPrefixedRun(doc, i, prefix, PathStop, 1)

\* re.findall(pattern, content) for the p-th pattern
PathMatches(content, p) ==
  ScanFrom([i \in 1..Len(content) |-> MatchPrefixed(content, i, PathPrefixes[p])], 1)

\* paths.extend(matches) for each pattern in turn
RECURSIVE PathCandidatesFrom(_, _)
PathCandidatesFrom(content, p) ==
  IF p > Len(PathPrefixes) THEN <<>>
  ELSE PathMatches(content, p) \o PathCandidatesFrom(content, p + 1)

PathCandidates(content) == PathCandidatesFrom(content, 1)

\* path.rstrip('\\').rstrip("'").rstrip('"').rstrip(';').rstrip(')')
StripPath(path) ==
  rstrip(rstrip(rstrip(rstrip(rstrip(path, "\\"), "'"), "\""), ";"), ")")

extract_file_paths(content) ==
  LET paths == PathCandidates(content)
      stripped == [k \in 1..Len(paths) |-> StripPath(paths[k])]
      cleaned == {stripped[k] : k \in {j \in 1..Len(paths) :
                                         stripped[j] # <<>> /\ Len(stripped[j]) > 2}}
  IN  sorted(cleaned)

\* -------------------------------------------------------- extract_zip_info

\* [^;|&\n]
CommandStop == {";", "|", "&", "\n"}

\* the tail  [^;|&\n]*?([^\s]+\.zip)  from position t: the lazy run takes as
\* few characters as possible, the file name as many as possible; the result
\* is <<l, z>> (lazy length, length of the name before .zip), or <<>>
ZipTail(doc, t) ==
  LET names(u) == {z \in 1..RunNotIn(doc, u, Whitespace) :
                     HasLit(doc, u + z, <<".","z","i","p">>)}
      lazy == {l \in 0..RunNotIn(doc, t, CommandStop) : names(t + l) # {}}
  IN  IF lazy = {} THEN <<>> ELSE <<Min(lazy), Max(names(t + Min(lazy)))>>

\* -P\s+([^\s]+)<tail> with -P at position q: the password takes as many
\* characters as leave a tail; the result is <<start, p, l, z>> or <<>>
ZipFromFlag(doc, q) ==
  LET w == RunIn(doc, q + 2, Whitespace)
      ps == q + 2 + w
      lens == {p \in 1..RunNotIn(doc, ps, Whitespace) : ZipTail(doc, ps + p) # <<>>}
  IN  IF HasLit(doc, q, <<"-","P">>) /\ w >= 1 /\ lens # {}
      THEN <<ps, Max(lens)>> \o ZipTail(doc, ps + Max(lens)) ELSE <<>>

\* unzip[^;|&\n]*-P\s+([^\s]+)[^;|&\n]*?([^\s]+\.zip)
\* findall returns the pair (password, zipfile)
MatchUnzip(doc, i) ==
  LET flags == {a \in 0..RunNotIn(doc, i + 5, CommandStop) :
                  ZipFromFlag(doc, i + 5 + a) # <<>>}
      m == ZipFromFlag(doc, i + 5 + Max(flags))
  IN  IF HasLit(doc, i, <<"u","n","z","i","p">>) /\ flags # {}
      THEN Hit(m[1] + m[2] + m[3] + m[4] + 4 - i,
               <<Sub(doc, m[1], m[2]), Sub(doc, m[1] + m[2] + m[3], m[4] + 4)>>)
      ELSE NoMatch

\* Unzp\d*\+='unzip[^']*-P\s+([^']+)'
\* After the last -P of the quoted value that whitespace and one more
\* character follow, the capture runs to the closing quote; the whitespace
\* gives one character back when the quote follows it at once.
MatchUnzpVar(doc, i) ==
  LET d == RunIn(doc, i + 4, Digits)
      b == i + 4 + d + 8
      flags == {a \in 0..RunNotIn(doc, b, {"'"}) :
                  /\ HasLit(doc, b + a, <<"-","P">>)
                  /\ RunIn(doc, b + a + 2, Whitespace) >= 1
                  /\ RunNotIn(doc, b + a + 3, {"'"}) >= 1
                  /\ HasLit(doc, b + a + 3 + RunNotIn(doc, b + a + 3, {"'"}), <<"'">>)}
      q == b + Max(flags)
      w == RunIn(doc, q + 2, Whitespace)
      cs == IF RunNotIn(doc, q + 2 + w, {"'"}) >= 1 THEN q + 2 + w ELSE q + 1 + w
      n == RunNotIn(doc, cs, {"'"})
  IN  IF /\ HasLit(doc, i, <<"U","n","z","p">>)
         /\ HasLit(doc, i + 4 + d, <<"+","=","'","u","n","z","i","p">>)
         /\ flags # {}
      THEN Hit(cs + n + 1 - i, Sub(doc, cs, n)) ELSE NoMatch

\* [^\s"']+\.zip
MatchZipFile(doc, i) ==
  LET names == {z \in 1..RunNotIn(doc, i, Whitespace \cup {"\"", "'"}) :
                  HasLit(doc, i + z, <<".","z","i","p">>)}
  IN  IF names = {} THEN NoMatch
      ELSE Hit(Max(names) + 4, Sub(doc, i, Max(names) + 4))

\* zip_info.append({'file': zipfile, 'password': password}) for each match
DetailedPairs(content) ==
  LET matches == findall(content, MatchUnzip)
  IN  [k \in 1..Len(matches) |-> [file |-> matches[k][2], password |-> matches[k][1]]]

\* sorted(set(var_matches))
ZipPasswords(content) == sorted_set(findall(content, MatchUnzpVar))

extract_zip_info(content) ==
  [passwords |-> ZipPasswords(content),
   zip_files |-> sorted_set(findall(content, MatchZipFile)),
   detailed  |-> DetailedPairs(content)]

\* ----------------------------------------------------- extract_credentials

\* sshpass\s+-p\s+(\S+)     (no flags: case sensitive)
MatchSshpass(doc, i) ==
  LET w1 == RunIn(doc, i + 7, Whitespace)
      w2 == RunIn(doc, i + 9 + w1, Whitespace)
      r  == RunNotIn(doc, i + 9 + w1 + w2, Whitespace)
  IN  IF /\ HasLit(doc, i, <<"s","s","h","p","a","s","s">>)
         /\ w1 >= 1
         /\ HasLit(doc, i + 7 + w1, <<"-","p">>)
         /\ w2 >= 1
         /\ r >= 1
      THEN Hit(9 + w1 + w2 + r, Sub(doc, i + 9 + w1 + w2, r)) ELSE NoMatch

\* -P\s+([^\s;|&]+)     (re.IGNORECASE)
MatchDashP(doc, i) ==
  LET w == RunIn(doc, i + 2, Whitespace)
      r == RunNotIn(doc, i + 2 + w, Whitespace \cup {";", "|", "&"})
  IN  IF HasLitI(doc, i, <<"-","P">>) /\ w >= 1 /\ r >= 1
      THEN Hit(2 + w + r, Sub(doc, i + 2 + w, r)) ELSE NoMatch

\* [=:]\s*["']?([^"';\s]+) from position j, after a keyword of k characters
\* that starts at i
AssignedValue(doc, i, k) ==
  LET j == i + k
      w == RunIn(doc, j + 1, Whitespace)
      q == IF j + 1 + w <= Len(doc) /\ doc[j + 1 + w] \in {"\"", "'"} THEN 1 ELSE 0
      r == RunNotIn(doc, j + 1 + w + q, Whitespace \cup {"\"", "'", ";"})
  IN  IF j <= Len(doc) /\ doc[j] \in {"=", ":"} /\ r >= 1
      THEN Hit(k + 1 + w + q + r, Sub(doc, j + 1 + w + q, r)) ELSE NoMatch

\* password[=:]\s*["']?([^"';\s]+)     (re.IGNORECASE)
MatchPassword(doc, i) ==
  IF HasLitI(doc, i, <<"p","a","s","s","w","o","r","d">>) THEN AssignedValue(doc, i, 8) ELSE NoMatch

\* passwd[=:]\s*["']?([^"';\s]+)     (re.IGNORECASE)
MatchPasswd(doc, i) ==
  IF HasLitI(doc, i, <<"p","a","s","s","w","d">>) THEN AssignedValue(doc, i, 6) ELSE NoMatch

\* api[_-]?key[=:]\s*["']?([^"';\s]+)     (re.IGNORECASE)
MatchApiKey(doc, i) ==
  LET sep == IF i + 3 <= Len(doc) /\ doc[i + 3] \in {"_", "-"} THEN 1 ELSE 0
  IN  IF HasLitI(doc, i, <<"a","p","i">>) /\ HasLitI(doc, i + 3 + sep, <<"k","e","y">>)
      THEN AssignedValue(doc, i, 6 + sep) ELSE NoMatch

\* token[=:]\s*["']?([^"';\s]+)     (re.IGNORECASE)
MatchToken(doc, i) ==
  IF HasLitI(doc, i, <<"t","o","k","e","n">>) THEN AssignedValue(doc, i, 5) ELSE NoMatch

\* the values the credential filter drops whatever their length
Placeholders == {<<"a","l","p","i","n","e">>, <<"$","p","a","s","s","w","o","r","d">>}

\* if len(m) > 2 and m not in ['alpine', '$password']
KeepCredential(m) == Len(m) > 2 /\ m \notin Placeholders

Tagged(matches, tag) == [k \in 1..Len(matches) |-> [type |-> tag, value |-> matches[k]]]

\* the loop body when the filter is left out
UnfilteredCredentials(matches, tag) == Tagged(matches, tag)

\* the loop body over one (pattern, cred_type) of pass_patterns
PatternCredentials(matches, tag) ==
  Tagged(SelectSeq(matches, KeepCredential), tag)

SshCredentials(content) == Tagged(findall(content, MatchSshpass), "SSH Password")

ZipPasswordCredentials(content) ==
  PatternCredentials(findall(content, MatchDashP), "Zip Password")

extract_credentials(content) ==
  SshCredentials(content)
  \o ZipPasswordCredentials(content)
  \o PatternCredentials(findall(content, MatchPassword), "Password")
  \o PatternCredentials(findall(content, MatchPasswd), "Password")
  \o PatternCredentials(findall(content, MatchApiKey), "API Key")
  \o PatternCredentials(findall(content, MatchToken), "Token")

\* -------------------------------------------------------- extract_commands

\* curl[^\n;|&]+
MatchCurl(doc, i) ==
  MatchPrefixedRun(doc, i, <<"c","u","r","l">>, CommandStop, 1)

\* (?:ssh|scp)[^\n;]+
MatchSsh(doc, i) ==
  LET r == RunNotIn(doc, i + 3, {"\n", ";"})
  IN  IF (HasLit(doc, i, <<"s","s","h">>) \/ HasLit(doc, i, <<"s","c","p">>)) /\ r >= 1
      THEN Hit(3 + r, Sub(doc, i, 3 + r)) ELSE NoMatch

\* \./irecovery[^\n;|&]+
MatchIrecovery(doc, i) ==
  MatchPrefixedRun(doc, i, <<".","/","i","r","e","c","o","v","e","r","y">>, CommandStop, 1)

\* the alternation, in its order
ToolNames ==
  <<<<"g","a","s","t","e","r">>,
    <<"i","p","w","n","d","e","r">>,
    <<"i","p","r","o","x","y">>,
    <<"i","m","g","4","t","o","o","l">>,
    <<"K","e","r","n","e","l","6","4","P","a","t","c","h","e","r">>,
    <<"a","s","r","6","4">>>>

\* \./(?:gaster|ipwnder|iproxy|img4tool|Kernel64Patcher|asr64)[^\n;|&]*
\* No name of the alternation is a prefix of another, so at most one fits.
MatchTool(doc, i) ==
  LET fit == {t \in 1..Len(ToolNames) : HasLit(doc, i + 2, ToolNames[t])}
      name == ToolNames[Min(fit)]
  IN  IF HasLit(doc, i, <<".","/">>) /\ fit # {}
      THEN MatchPrefixedRun(doc, i, <<".","/">> \o name, CommandStop, 0)
      ELSE NoMatch

CurlCap == 50

SshCap == 20

IrecoveryCap == 30

ToolsCap == 30

\* xs[:n]
Take(xs, n) == SubSeq(xs, 1, IF Len(xs) < n THEN Len(xs) ELSE n)

\* the cap applied before the sort: sorted(set(matches[:cap]))
CappedBeforeSort(matches, cap) == sorted_set(Take(matches, cap))

\* sorted(set(matches))[:cap]
Capped(matches, cap) == Take(sorted_set(matches), cap)

extract_commands(content) ==
  [curl_commands      |-> Capped(findall(content, MatchCurl), CurlCap),
   ssh_commands       |-> Capped(findall(content, MatchSsh), SshCap),
   irecovery_commands |-> Capped(findall(content, MatchIrecovery), IrecoveryCap),
   other_tools        |-> Capped(findall(content, MatchTool), ToolsCap)]

\* ------------------------------------------------------ extract_device_ids

DeviceFamilies ==
  <<<<"i","P","h","o","n","e">>, <<"i","P","a","d">>, <<"i","P","o","d">>, <<"A","p","p","l","e","T","V">>>>

\* (?:iPhone|iPad|iPod|AppleTV)\d+,\d+
MatchDevice(doc, i) ==
  LET fit == {f \in 1..Len(DeviceFamilies) : HasLit(doc, i, DeviceFamilies[f])}
      k  == Len(DeviceFamilies[Min(fit)])
      d1 == RunIn(doc, i + k, Digits)
      d2 == RunIn(doc, i + k + d1 + 1, Digits)
  IN  IF /\ fit # {}
         /\ d1 >= 1
         /\ HasLit(doc, i + k + d1, <<",">>)
         /\ d2 >= 1
      THEN Hit(k + d1 + 1 + d2, Sub(doc, i, k + d1 + 1 + d2)) ELSE NoMatch

extract_device_ids(content) == sorted_set(findall(content, MatchDevice))

\* ------------------------------------------------------- extract_variables

\* ^([A-Za-z_][A-Za-z0-9_]*)\+?='([^']+)'     (re.MULTILINE)
\* findall returns the pair (var, value)
MatchVariable(doc, i) ==
  LET n == RunIn(doc, i + 1, NameChars) + 1
      plus == IF HasLit(doc, i + n, <<"+">>) THEN 1 ELSE 0
      vs == i + n + plus + 2
      v == RunNotIn(doc, vs, {"'"})
  IN  IF /\ (i = 1 \/ doc[i - 1] = "\n")
         /\ doc[i] \in NameStart
         /\ HasLit(doc, i + n + plus, <<"=","'">>)
         /\ v >= 1
         /\ HasLit(doc, vs + v, <<"'">>)
      THEN Hit(n + plus + 2 + v + 1, <<Sub(doc, i, n), Sub(doc, vs, v)>>)
      ELSE NoMatch

VariableMatches(content) == findall(content, MatchVariable)

\* vars_dict[var] = value, whatever is there
StoreLast(vars_dict, var, value) == (var :> value) @@ vars_dict

\* if var not in vars_dict: vars_dict[var] = value
StoreFirst(vars_dict, var, value) ==
  IF var \in DOMAIN vars_dict THEN vars_dict ELSE (var :> value) @@ vars_dict

\* the loop over the first k matches, from the empty dict
RECURSIVE VariablesAfter(_, _)
VariablesAfter(matches, k) ==
  IF k = 0 THEN <<>>
  ELSE StoreFirst(VariablesAfter(matches, k - 1), matches[k][1], matches[k][2])

extract_variables(content) ==
  VariablesAfter(VariableMatches(content), Len(VariableMatches(content)))

\* -------------------------------------------------------------------- main

VARIABLES
  scriptKind,   \* what args.script names: a file, nothing, or no readable file
  scriptText,   \* the decoded text of the script file
  pc,           \* where main() stands
  content,      \* the local content
  data,         \* the dict under construction, one key per extractor
  invoked,      \* how often each extractor has been called
  rendered,     \* the format of output: "", "json" or "text"
  written,      \* how often the output file has been written
  stderr,       \* what main printed to sys.stderr
  ret,          \* what main returned: <<>> until it returns
  raised        \* the exception that left main, "" when none

vars ==
  <<scriptKind, scriptText, pc, content, data, invoked, rendered, written,
    stderr, ret, raised>>

Extractors ==
  <<"extract_urls", "extract_domains", "extract_api_endpoints",
    "extract_file_paths", "extract_zip_info", "extract_credentials",
    "extract_device_ids", "extract_commands", "extract_variables">>

\* open(args.script, 'r', ...) on each kind of path
ScriptKinds == {"file", "missing", "unreadable", "directory"}

EmptyData ==
  [urls |-> <<>>, domains |-> <<>>, api_endpoints |-> <<>>, file_paths |-> <<>>,
   zip_info |-> [passwords |-> <<>>, zip_files |-> <<>>, detailed |-> <<>>],
   credentials |-> <<>>, device_ids |-> <<>>,
   commands |-> [curl_commands |-> <<>>, ssh_commands |-> <<>>,
                 irecovery_commands |-> <<>>, other_tools |-> <<>>],
   variables |-> <<>>]

\* the state when main() has parsed its arguments, for a script file of one
\* of the texts docs
InitWith(docs) ==
  /\ scriptText \in docs
  /\ scriptKind \in ScriptKinds
  /\ pc = "open"
  /\ content = <<>>
  /\ data = EmptyData
  /\ invoked = [e \in Range(Extractors) |-> 0]
  /\ rendered = ""
  /\ written = 0
  /\ stderr = <<>>
  /\ ret = <<>>
  /\ raised = ""

\* with open(args.script, ...) as f: content = f.read()
ReadScript ==
  /\ pc = "open"
  /\ scriptKind = "file"
  /\ content' = scriptText
  /\ pc' = "extract_urls"
  /\ UNCHANGED <<scriptKind, scriptText, data, invoked, rendered, written,
                 stderr, ret, raised>>

\* except FileNotFoundError: print(..., file=sys.stderr); return 1
ScriptNotFound ==
  /\ pc = "open"
  /\ scriptKind = "missing"
  /\ stderr' = Append(stderr, "Error: File not found")
  /\ ret' = <<1>>
  /\ pc' = "returned"
  /\ UNCHANGED <<scriptKind, scriptText, content, data, invoked, rendered,
                 written, raised>>

\* open() raises another OSError, which no except clause of main catches
ScriptOpenRaises ==
  /\ pc = "open"
  /\ scriptKind \in {"unreadable", "directory"}
  /\ raised' = IF scriptKind = "unreadable" THEN "PermissionError"
               ELSE "IsADirectoryError"
  /\ pc' = "raised"
  /\ UNCHANGED <<scriptKind, scriptText, content, data, invoked, rendered,
                 written, stderr, ret>>

\* one entry of the dict display: the extractor is called on content
Called(name, next) ==
  /\ pc = name
  /\ invoked' = [invoked EXCEPT ![name] = @ + 1]
  /\ pc' = next
  /\ UNCHANGED <<scriptKind, scriptText, content, rendered, written, stderr,
                 ret, raised>>

ExtractUrls ==
  /\ Called("extract_urls", "extract_domains")
  /\ data' = [data EXCEPT !.urls = extract_urls(content)]

ExtractDomains ==
  /\ Called("extract_domains", "extract_api_endpoints")
  /\ data' = [data EXCEPT !.domains = extract_domains(content)]

ExtractApiEndpoints ==
  /\ Called("extract_api_endpoints", "extract_file_paths")
  /\ data' = [data EXCEPT !.api_endpoints = extract_api_endpoints(content)]

ExtractFilePaths ==
  /\ Called("extract_file_paths", "extract_zip_info")
  /\ data' = [data EXCEPT !.file_paths = extract_file_paths(content)]

ExtractZipInfo ==
  /\ Called("extract_zip_info", "extract_credentials")
  /\ data' = [data EXCEPT !.zip_info = extract_zip_info(content)]

ExtractCredentials ==
  /\ Called("extract_credentials", "extract_device_ids")
  /\ data' = [data EXCEPT !.credentials = extract_credentials(content)]

ExtractDeviceIds ==
  /\ Called("extract_device_ids", "extract_commands")
  /\ data' = [data EXCEPT !.device_ids = extract_device_ids(content)]

ExtractCommands ==
  /\ Called("extract_commands", "extract_variables")
  /\ data' = [data EXCEPT !.commands = extract_commands(content)]

ExtractVariables ==
  /\ Called("extract_variables", "format")
  /\ data' = [data EXCEPT !.variables = extract_variables(content)]

\* if args.json: output = json.dumps(...) else: output = "\n".join(lines)
FormatOutput ==
  /\ pc = "format"
  /\ \E json \in BOOLEAN : rendered' = IF json THEN "json" ELSE "text"
  /\ pc' = "write"
  /\ UNCHANGED <<scriptKind, scriptText, content, data, invoked, written,
                 stderr, ret, raised>>

\* with open(args.output, 'w') as f: f.write(output)
WriteOutput ==
  /\ pc = "write"
  /\ written' = written + 1
  /\ pc' = "summary"
  /\ UNCHANGED <<scriptKind, scriptText, content, data, invoked, rendered,
                 stderr, ret, raised>>

\* open(args.output, 'w') or the write raises OSError (no such directory,
\* no permission, no space), which main does not catch
WriteRaises ==
  /\ pc = "write"
  /\ raised' = "OSError"
  /\ pc' = "raised"
  /\ UNCHANGED <<scriptKind, scriptText, content, data, invoked, rendered,
                 written, stderr, ret>>

\* the summary prints, then return 0
ReturnZero ==
  /\ pc = "summary"
  /\ ret' = <<0>>
  /\ pc' = "returned"
  /\ UNCHANGED <<scriptKind, scriptText, content, data, invoked, rendered,
                 written, stderr, raised>>

Next ==
  \/ ReadScript
  \/ ScriptNotFound
  \/ ScriptOpenRaises
  \/ ExtractUrls
  \/ ExtractDomains
  \/ ExtractApiEndpoints
  \/ ExtractFilePaths
  \/ ExtractZipInfo
  \/ ExtractCredentials
  \/ ExtractDeviceIds
  \/ ExtractCommands
  \/ ExtractVariables
  \/ FormatOutput
  \/ WriteOutput
  \/ WriteRaises
  \/ ReturnZero

\* ------------------------------------------------------------ script texts

\* ''.join(tokens[k] for k in picks)
RECURSIVE Join(_, _)
Join(tokens, picks) ==
  IF picks = <<>> THEN <<>> ELSE tokens[Head(picks)] \o Join(tokens, Tail(picks))

\* every text made of at most max of the tokens
TextsOf(tokens, max) ==
  {Join(tokens, picks) : picks \in UNION {[1..n -> 1..Len(tokens)] : n \in 0..max}}

MaxMixTokens == 4

MaxTrimTokens == 3

MaxZipTokens == 3

MaxCredTokens == 3

MaxVarTokens == 3

\* lines with something for each of the deduplicated outputs
MixTokens ==
  <<<<"h","t","t","p",":","/","/","b","/","x",".","p","h","p"," ","/","t","m","p","/","b",".","z","i","p"," ">>,
    <<"h","t","t","p",":","/","/","a","/","v","1","/","y"," ","/","t","m","p","/","a",".","z","i","p","\\"," ">>,
    <<"i","P","a","d","2",",","1"," ","U","n","z","p","+","=","'","u","n","z","i","p"," ","-","P"," ","b","'","\n">>,
    <<"i","P","a","d","1",",","1"," ","U","n","z","p","2","+","=","'","u","n","z","i","p"," ","-","P"," ","a","'","\n">>>>

\* a URL, a path and the characters the clean-ups strip or stop at
TrimTokens ==
  <<<<"c","u","r","l"," ","h","t","t","p","s",":","/","/","e","v","i","l",".","e","x","a","m","p","l","e","/","x",".","p","h","p","?","a","=","1">>,
    <<"/","t","m","p","/","a">>,
    <<".">>,
    <<"\\">>,
    <<")">>,
    <<" ">>>>

\* unzip invocations and Unzp assignments
ZipTokens ==
  <<<<"u","n","z","i","p"," ","-","P"," ","h","u","n","t","e","r","2"," ","p","a","y","l","o","a","d",".","z","i","p","\n">>,
    <<"U","n","z","p","=","'","u","n","z","i","p"," ","-","P"," ","s","e","c","r","e","t","A"," ","a","r","c","h","i","v","e","1",".","z","i","p","'","\n">>,
    <<"U","n","z","p","+","=","'","u","n","z","i","p"," ","-","P"," ","s","e","c","r","e","t","A"," ","a","r","c","h","i","v","e","1",".","z","i","p","'","\n">>,
    <<"U","n","z","p","2","+","=","'","u","n","z","i","p"," ","-","P"," ","s","e","c","r","e","t","B","'","\n">>>>

\* one line for each credential pattern
CredTokens ==
  <<<<"s","s","h","p","a","s","s"," "," ","-","p"," "," ","a"," ">>,
    <<"u","n","z","i","p"," ","-","P"," ","a","b"," ","x",";">>,
    <<"p","a","s","s","w","o","r","d","=","a","l","p","i","n","e","\n">>,
    <<"P","A","S","S","W","D",":"," ","'","h","u","n","t","e","r","2","'",";">>,
    <<"t","o","k","e","n","=","$","p","a","s","s","w","o","r","d"," ">>,
    <<"a","p","i","-","k","e","y","=","\"","k","3","y","\""," ">>>>

\* assignments, at a line start and not, closed and not
VarTokens ==
  <<<<"U","n","z","p","=","'","u","n","z","i","p"," ","-","P"," ","s","e","c","r","e","t","A"," ","a","r","c","h","i","v","e","1",".","z","i","p","'","\n">>,
    <<"U","n","z","p","=","'","u","n","z","i","p"," ","-","P"," ","s","e","c","r","e","t","B"," ","a","r","c","h","i","v","e","2",".","z","i","p","'","\n">>,
    <<"U","n","z","p","+","=","'","x","'","\n">>,
    <<"f","l","d","=","'","y","'","\n">>,
    <<" ","f","l","d","=","'","z","'","\n">>,
    <<"f","l","d","=","'","z","\n">>>>

Init == InitWith(TextsOf(MixTokens, MaxMixTokens))

Spec == Init /\ [][Next]_vars

InitTrim == InitWith(TextsOf(TrimTokens, MaxTrimTokens))

SpecTrim == InitTrim /\ [][Next]_vars

InitZip == InitWith(TextsOf(ZipTokens, MaxZipTokens))

SpecZip == InitZip /\ [][Next]_vars

InitCreds == InitWith(TextsOf(CredTokens, MaxCredTokens))

SpecCreds == InitCreds /\ [][Next]_vars

InitVars == InitWith(TextsOf(VarTokens, MaxVarTokens))

SpecVars == InitVars /\ [][Next]_vars

\* texts of command lines, one command of one kind on each line

\* how many lines more than the cap of its kind a text may hold
CmdOver == 2

CmdPrefixes ==
  <<<<"c","u","r","l"," ">>,
    <<"s","s","h"," ">>,
    <<".","/","i","r","e","c","o","v","e","r","y"," ">>,
    <<".","/","g","a","s","t","e","r"," ">>>>

CmdCaps == <<CurlCap, SshCap, IrecoveryCap, ToolsCap>>

\* the two characters that tell the commands of a text apart
IdChars == <<"0","1","2","3","4","5","6","7">>

IdStr(id) == <<IdChars[(id \div 8) + 1], IdChars[(id % 8) + 1]>>

\* the ids of n commands: counting down, scattered, or scattered with the
\* first two commands once more at the end
CmdOrders == {"descending", "scattered", "repeated"}

CmdIds(order, n) ==
  CASE order = "descending" -> [k \in 1..n |-> n - k]
    [] order = "scattered"  -> [k \in 1..n |-> (k * 37) % 64]
    [] order = "repeated"   ->
         [k \in 1..(n + (IF n < 2 THEN n ELSE 2)) |->
            ((IF k > n THEN k - n ELSE k) * 37) % 64]

\* the lines  <prefix><id>\n  for the ids, in their order
CmdText(prefix, ids) ==
  LET w == Len(prefix) + 3
  IN  [p \in 1..(Len(ids) * w) |->
         LET k == ((p - 1) \div w) + 1
             c == ((p - 1) % w) + 1
         IN  IF c <= Len(prefix) THEN prefix[c]
             ELSE IF c = w THEN "\n"
             ELSE IdStr(ids[k])[c - Len(prefix)]]

\* for each kind: no command, one, and from one less than the cap of the kind
\* to CmdOver more
CmdTextsOf(kind) ==
  {CmdText(CmdPrefixes[kind], CmdIds(order, n)) :
     order \in CmdOrders,
     n \in {0, 1} \cup ((CmdCaps[kind] - 1)..(CmdCaps[kind] + CmdOver))}

CmdTexts == UNION {CmdTextsOf(kind) : kind \in 1..Len(CmdPrefixes)}

InitCmds == InitWith(CmdTexts)

SpecCmds == InitCmds /\ [][Next]_vars

\* ------------------------------------------------------------- properties

\* s is in strictly ascending order
StrictlyAscending(s) == \A k \in 1..(Len(s) - 1) : StrLess(s[k], s[k + 1])

\* the seven deduplicated outputs
DedupOutputs ==
  <<data.urls, data.domains, data.api_endpoints, data.file_paths,
    data.device_ids, data.zip_info.passwords, data.zip_info.zip_files>>

\* C1: each of the seven deduplicated outputs is a sequence in strictly
\* ascending lexicographic order, so no two of its entries are equal.
C1_StrictlyAscending ==
  \A o \in 1..Len(DedupOutputs) : StrictlyAscending(DedupOutputs[o])

\* main has returned 0 for a text in which each of the seven outputs has two
\* entries and the URLs stand in descending order
C1_Witness ==
  /\ pc = "returned"
  /\ ret = <<0>>
  /\ \A o \in 1..Len(DedupOutputs) : Len(DedupOutputs[o]) >= 2
  /\ Len(UrlCandidates(content)) >= 2
  /\ StrLess(UrlCandidates(content)[2], UrlCandidates(content)[1])

\* C2: the 'passwords' field is the union of the passwords of the detailed
\* pairs and of the declared passwords; every password of the 'detailed'
\* list is in 'passwords'.
C2_PasswordsAreUnion ==
  invoked["extract_zip_info"] = 1 =>
    Range(data.zip_info.passwords) =
      {data.zip_info.detailed[k].password : k \in 1..Len(data.zip_info.detailed)}
      \cup Range(findall(content, MatchUnzpVar))

\* . , ; : ! ? ]
TrailingPunctuation == {".", ",", ";", ":", "!", "?", "]"}

\* curl https://evil.example/x.php?a=1 and the URL in it
ScenarioA == TrimTokens[1]

ScenarioAUrl == SubSeq(ScenarioA, 6, Len(ScenarioA))

\* C3: when a URL with a .php segment is followed by one trailing punctuation
\* character, extract_urls and extract_api_endpoints both give the URL
\* without that character.
C3_SameEndpoint ==
  (/\ invoked["extract_api_endpoints"] = 1
   /\ \E c \in TrailingPunctuation : content = ScenarioA \o <<c>>)
  => /\ data.urls = <<ScenarioAUrl>>
     /\ data.api_endpoints = <<ScenarioAUrl>>

\* C4: stripping twice gives what stripping once gives, for every candidate
\* of the URL scan under the URL rule and for every candidate of the path
\* scan under the path rule.
C4_StripIdempotent ==
  invoked["extract_file_paths"] = 1 =>
    /\ \A c \in Range(UrlCandidates(content)) : StripUrl(StripUrl(c)) = StripUrl(c)
    /\ \A c \in Range(PathCandidates(content)) : StripPath(StripPath(c)) = StripPath(c)

\* a value the discard rule drops: at most 2 characters, or a placeholder
Discarded(v) ==
  \/ Len(v) <= 2
  \/ v = <<"a","l","p","i","n","e">>
  \/ v = <<"$","p","a","s","s","w","o","r","d">>

Finding(tag, v) == [type |-> tag, value |-> v]

\* every match of the pattern is among the findings, under the tag, exactly
\* when the discard rule does not drop its value
KeptUnlessDiscarded(matches, tag) ==
  \A k \in 1..Len(matches) :
    Finding(tag, matches[k]) \in Range(data.credentials) <=> ~Discarded(matches[k])

\* every match of the pattern is among the findings, under the tag
AlwaysKept(matches, tag) ==
  \A k \in 1..Len(matches) : Finding(tag, matches[k]) \in Range(data.credentials)

\* sub-patterns 3-6 follow the discard rule
AssignmentsFiltered ==
  /\ KeptUnlessDiscarded(findall(content, MatchPassword), "Password")
  /\ KeptUnlessDiscarded(findall(content, MatchPasswd), "Password")
  /\ KeptUnlessDiscarded(findall(content, MatchApiKey), "API Key")
  /\ KeptUnlessDiscarded(findall(content, MatchToken), "Token")

\* C5, as stated: the discard rule applies to sub-patterns 3-6 only; every
\* match of sub-pattern 1 (sshpass -p) and of sub-pattern 2 (-P <value>) is
\* kept whatever its value.
C5_FilterOnlyAssignments ==
  invoked["extract_credentials"] = 1 =>
    /\ AssignmentsFiltered
    /\ AlwaysKept(findall(content, MatchSshpass), "SSH Password")
    /\ AlwaysKept(findall(content, MatchDashP), "Zip Password")

\* C5, amended: the discard rule applies to sub-patterns 2-6 (-P <value>,
\* password, passwd, api key, token): a match of one of those five is kept
\* exactly when its value is longer than 2 characters and is neither
\* placeholder; every match of sub-pattern 1 (sshpass -p) is kept whatever
\* its value; and no finding but an SSH password has a value the rule drops.
C5_FilterAllButSshpass ==
  invoked["extract_credentials"] = 1 =>
    /\ AssignmentsFiltered
    /\ KeptUnlessDiscarded(findall(content, MatchDashP), "Zip Password")
    /\ AlwaysKept(findall(content, MatchSshpass), "SSH Password")
    /\ \A k \in 1..Len(data.credentials) :
         data.credentials[k].type # "SSH Password"
           => ~Discarded(data.credentials[k].value)

\* the credentials of a text have been extracted in which sshpass -p gave a
\* value of one character, which is a finding, -P gave a value of two
\* characters, which is not, and password= gave alpine, which is not
C5_Witness ==
  /\ invoked["extract_credentials"] = 1
  /\ \E m \in Range(findall(content, MatchSshpass)) :
       Len(m) <= 2 /\ Finding("SSH Password", m) \in Range(data.credentials)
  /\ \E m \in Range(findall(content, MatchDashP)) :
       Len(m) = 2 /\ Finding("Zip Password", m) \notin Range(data.credentials)
  /\ <<"a","l","p","i","n","e">> \in Range(findall(content, MatchPassword))
  /\ \A k \in 1..Len(data.credentials) : data.credentials[k].type # "Password"

\* C6: the mapping holds, for each name, the value of the first match of
\* that name; a later match of the same name, with = or with +=, does not
\* change it; and it holds no other name.
C6_FirstValueOnly ==
  invoked["extract_variables"] = 1 =>
    LET matches == VariableMatches(content)
    IN  /\ DOMAIN data.variables = {matches[k][1] : k \in 1..Len(matches)}
        /\ \A k \in 1..Len(matches) :
             (\A j \in 1..(k - 1) : matches[j][1] # matches[k][1])
               => data.variables[matches[k][1]] = matches[k][2]

\* Scenario C, then Unzp+='x': three assignments to Unzp with three values,
\* of which the mapping holds the first
C6_Witness ==
  /\ pc = "returned"
  /\ content = VarTokens[1] \o VarTokens[2] \o VarTokens[3]
  /\ Len(VariableMatches(content)) = 3
  /\ DOMAIN data.variables = {<<"U","n","z","p">>}
  /\ data.variables[<<"U","n","z","p">>] = SubSeq(VarTokens[1], 7, Len(VarTokens[1]) - 2)

\* the distinct matches of a pattern
Distinct(matches) == Range(matches)

\* out is the cap smallest of the distinct matches, in ascending order (all
\* of them when they are no more than cap)
SmallestOf(out, matches, cap) ==
  /\ Len(out) <= cap
  /\ Len(out) = IF Cardinality(Distinct(matches)) < cap
                THEN Cardinality(Distinct(matches)) ELSE cap
  /\ Range(out) \subseteq Distinct(matches)
  /\ StrictlyAscending(out)
  /\ \A m \in Distinct(matches) \ Range(out) : \A k \in 1..Len(out) : StrLess(out[k], m)

\* C7: each command sub-category holds no more entries than its cap (50, 20,
\* 30, 30) and holds exactly the smallest distinct matches, as many as the
\* cap allows, in ascending order.
C7_CappedSmallest ==
  invoked["extract_commands"] = 1 =>
    /\ SmallestOf(data.commands.curl_commands, findall(content, MatchCurl), 50)
    /\ SmallestOf(data.commands.ssh_commands, findall(content, MatchSsh), 20)
    /\ SmallestOf(data.commands.irecovery_commands, findall(content, MatchIrecovery), 30)
    /\ SmallestOf(data.commands.other_tools, findall(content, MatchTool), 30)

\* the commands of a text have been extracted that holds more distinct curl
\* commands than the cap, not in ascending order, of which 50 are kept
C7_Witness ==
  /\ invoked["extract_commands"] = 1
  /\ Cardinality(Distinct(findall(content, MatchCurl))) > 50
  /\ ~StrictlyAscending(findall(content, MatchCurl))
  /\ Len(data.commands.curl_commands) = 50

\* main is over: it has returned, or an exception has left it
Over == pc \in {"returned", "raised"}

\* C8: when the script path names no readable file, main reports an error
\* on the error stream and returns a non-zero status, having called no
\* extractor and written nothing; otherwise it calls each of the nine
\* extractors once, then writes the output file once, and returns 0.
C8_AllOrNothing ==
  /\ written >= 1 => \A e \in Range(Extractors) : invoked[e] = 1
  /\ Over =>
       IF scriptKind = "file"
       THEN /\ \A e \in Range(Extractors) : invoked[e] = 1
            /\ written = 1
            /\ ret = <<0>>
       ELSE /\ \A e \in Range(Extractors) : invoked[e] = 0
            /\ written = 0
            /\ Len(stderr) >= 1
            /\ Len(ret) = 1 /\ ret[1] # 0

\* the password tokens of the assignments  Unzp<digit?>='unzip ... -P <pw> ...'
\* (with =) of a text: the characters after -P and its whitespace, up to the
\* next whitespace or the closing quote
DeclaredPasswordTokens(doc) ==
  {Sub(doc, q + 2 + RunIn(doc, q + 2, Whitespace),
       RunNotIn(doc, q + 2 + RunIn(doc, q + 2, Whitespace), Whitespace \cup {"'"})) :
     q \in {q \in 1..Len(doc) :
              /\ HasLit(doc, q, <<"-","P">>)
              /\ RunIn(doc, q + 2, Whitespace) >= 1
              /\ RunNotIn(doc, q + 2 + RunIn(doc, q + 2, Whitespace),
                          Whitespace \cup {"'"}) >= 1
              /\ \E i \in 1..q, d \in 0..1 :
                   /\ HasLit(doc, i, <<"U","n","z","p">>)
                   /\ d = 1 => RunIn(doc, i + 4, Digits) >= 1
                   /\ HasLit(doc, i + 4 + d, <<"=","'","u","n","z","i","p">>)
                   /\ i + 4 + d + 7 <= q
                   /\ RunNotIn(doc, i + 4 + d + 2, {"'"}) > q + 2 - (i + 4 + d + 2)
                   /\ HasLit(doc, i + 4 + d + 2
                                  + RunNotIn(doc, i + 4 + d + 2, {"'"}), <<"'">>)}}

\* C9: for every assignment (with =) to Unzp or Unzp<digit> of a quoted
\* unzip invocation with -P <password>, the 'passwords' field holds the
\* password token <password>.
C9_DeclaredTokens ==
  invoked["extract_zip_info"] = 1 =>
    DeclaredPasswordTokens(content) \subseteq Range(data.zip_info.passwords)

\* C10: no string of extract_urls ends with a trailing punctuation
\* character, a backslash or a quote.
C10_NoTrailingCharacter ==
  \A k \in 1..Len(data.urls) :
    data.urls[k][Len(data.urls[k])] \notin TrailingPunctuation \cup {"\\", "'", "\""}

====
